---- MODULE Spec2Model ----
(***************************************************************************)
(* Model of the "report a found document" form: the SignalerCarte view     *)
(* (src/unnamed/part_000) and its PhotoUpload picker widget                *)
(* (src/src/components/card-report/PhotoUpload.tsx).                       *)
(*                                                                         *)
(* The view is a single-threaded, event-driven component.  Every action    *)
(* below is one run-to-completion piece of JavaScript: an event handler, or*)
(* the part of the async function onSubmit that runs between two awaits.   *)
(***************************************************************************)
EXTENDS Integers, Sequences, FiniteSets, TLC

(***************************************************************************)
(* Bounds of the model.                                                    *)
(***************************************************************************)
\* Number of submission workflows the model can hold in flight at once.
MaxInFlight == 2

Slots == 1..MaxInFlight

\* Values Math.random() can return (part_000:80).
Rand == {1, 2}

(***************************************************************************)
(* JavaScript values.  Every value is a record with a "kind", so that any  *)
(* two of them can be compared.                                            *)
(***************************************************************************)
Null == [kind |-> "null"]
Undefined == [kind |-> "undefined"]

\* A File object as the browser hands it over: name is the list of the
\* pieces of the file name, the "." separators included.
MkFile(name, type, size) ==
    [kind |-> "file", name |-> name, type |-> type, size |-> size]

\* PhotoUpload.tsx:44   const maxSize = 5 * 1024 * 1024
maxSize == 5 * 1024 * 1024

\* PhotoUpload.tsx:43
allowedTypes == {"image/jpeg", "image/png", "image/jpg"}

\* Candidate files a user can drop or pick.
Photo2MiB  == MkFile(<<"photo", ".", "jpg">>, "image/jpeg", 2 * 1024 * 1024)
ScanAtMax  == MkFile(<<"scan", ".", "v2", ".", "png">>, "image/png", 5242880)
JpgOverMax == MkFile(<<"big", ".", "jpg">>, "image/jpg", 5242881)
SmallGif   == MkFile(<<"anim", ".", "gif">>, "image/gif", 1024)
HugePdf    == MkFile(<<"doc", ".", "pdf">>, "application/pdf", 6 * 1024 * 1024)

CandidateFiles == {Photo2MiB, ScanAtMax, JpgOverMax, SmallGif, HugePdf}

\* The FileList of a drop or pick event: no file, one file, or several.
FileLists ==
    {<<>>} \cup {<<f>> : f \in CandidateFiles \ {JpgOverMax}}
           \cup {<<JpgOverMax, Photo2MiB>>}

\* PhotoUpload.tsx:65-69   the synthetic event built around an accepted file
SyntheticEvent(f) == [kind |-> "event", target |-> [files |-> <<f>>]]

\* Values of the declared parameter type of handleFileChange (File | null).
DeclaredFileArgs == {Null, Photo2MiB}

(***************************************************************************)
(* Toasts.                                                                 *)
(***************************************************************************)
\* PhotoUpload.tsx:47-51
ToastUnsupportedType ==
    [variant |-> "destructive", title |-> "Type de fichier non supporté"]
\* PhotoUpload.tsx:56-60
ToastTooLarge ==
    [variant |-> "destructive", title |-> "Fichier trop volumineux"]
\* part_000:69-73
ToastUnauthenticated ==
    [variant |-> "destructive",
     title |-> "Erreur: Vous devez être connecté pour signaler un document"]
\* part_000:124-128
ToastSubmitError ==
    [variant |-> "destructive",
     title |-> "Erreur: Une erreur est survenue lors de l'envoi du signalement"]
\* part_000:114-117
ToastSuccess ==
    [variant |-> "default", title |-> "Signalement envoyé"]

(***************************************************************************)
(* The form's field values (react-hook-form).  cardNumber is a sequence of *)
(* characters so that the digits-only pattern is computed, the other texts *)
(* are strings.                                                            *)
(***************************************************************************)
\* part_000:45-51
defaultValues ==
    [documentType |-> "id", cardNumber |-> <<>>, location |-> "",
     foundDate |-> "", description |-> ""]

\* Values the inputs can put in each field (a bounded choice; the Select of
\* the document type is left on its default).
FieldChoices ==
    [documentType |-> {"id"},
     cardNumber   |-> {<<>>, <<"1", "2", "3">>, <<"1", "2", "a", "3">>},
     location     |-> {"", "Dakar"},
     foundDate    |-> {"", "2024-05-01"},
     description  |-> {"", "trouvé au marché"}]

FieldNames == {"documentType", "cardNumber", "location", "foundDate", "description"}

Digits == {"0", "1", "2", "3", "4", "5", "6", "7", "8", "9"}

\* part_000:27   /^\d+$/
MatchesDigits(s) == Len(s) >= 1 /\ \A k \in 1..Len(s) : s[k] \in Digits

\* Variant: the digits-only pattern is left out of the schema.
formSchema_NoPattern(v) ==
    /\ v.documentType # ""
    /\ Len(v.cardNumber) >= 1
    /\ v.location # ""
    /\ v.foundDate # ""

\* part_000:23-34   z.object({...}) : TRUE when the resolver reports no error
formSchema(v) ==
    /\ v.documentType # ""
    /\ Len(v.cardNumber) >= 1
    /\ MatchesDigits(v.cardNumber)
    /\ v.location # ""
    /\ v.foundDate # ""

VARIABLES
    mounted,       \* part_000:40  mounted.current
    isSubmitting,  \* part_000:38
    file,          \* part_000:39  the attached file held by the view
    form,          \* part_000:43  the field values held by useForm
    isDragging,    \* PhotoUpload.tsx:13
    wf,            \* the running invocations of onSubmit, one per slot
    lastEvent      \* what the last handled event did (observation only)

vars == <<mounted, isSubmitting, file, form, isDragging, wf, lastEvent>>

(***************************************************************************)
(* One invocation of onSubmit.  pc is the await the invocation is          *)
(* suspended at; file and values are what the invocation captured when it  *)
(* was called (the closure's file, the validated values); user,           *)
(* uploadError and error are what the awaited calls resolved with          *)
(* (undefined until then); calls, toasts, stored and inserted are what the *)
(* invocation did: the collaborator and navigate calls in order, the       *)
(* toasts shown, the objects put in storage, the rows put in the table.    *)
(***************************************************************************)
IdleWf ==
    [pc |-> "idle", values |-> defaultValues, file |-> Null,
     user |-> Undefined, uploadError |-> Undefined, error |-> Undefined,
     filePath |-> Null, photoUrl |-> Null, calls |-> <<>>, toasts |-> <<>>,
     stored |-> <<>>, inserted |-> <<>>, outcome |-> "none"]

Running == {"auth", "upload", "insert"}

\* Identities supabase.auth.getUser() can resolve to (part_000:67).
TheUser == [kind |-> "user", id |-> "u1"]
Identities == {Null, TheUser}

\* A finished invocation is visible in the state its last step produces and
\* gives its slot back when the next event is handled.
Retired(w) == [j \in Slots |-> IF w[j].pc = "done" THEN IdleWf ELSE w[j]]

NoEvent == [kind |-> "none"]

Init ==
    /\ mounted = TRUE
    /\ isSubmitting = FALSE
    /\ file = Null
    /\ form = defaultValues
    /\ isDragging = FALSE
    /\ wf = [j \in Slots |-> IdleWf]
    /\ lastEvent = NoEvent

(***************************************************************************)
(* Field edits: the inputs and the Select write into the form              *)
(* (part_000:171-215).                                                     *)
(***************************************************************************)
SetField(name, v) ==
    /\ form[name] # v
    /\ form' = [form EXCEPT ![name] = v]
    /\ wf' = Retired(wf)
    /\ lastEvent' = NoEvent
    /\ UNCHANGED <<mounted, isSubmitting, file, isDragging>>

(***************************************************************************)
(* The view's file callback.                                               *)
(***************************************************************************)
\* part_000:136-140   the value of the file state after handleFileChange(newFile)
handleFileChange(newFile) == IF mounted THEN newFile ELSE file

\* A call of handleFileChange with a value of its declared parameter type
\* (File | null).  The widget never makes such a call: it passes a synthetic
\* event (see FileAfterReports).
FileChangeCall(newFile) ==
    /\ file' = handleFileChange(newFile)
    /\ wf' = Retired(wf)
    /\ lastEvent' = NoEvent
    /\ UNCHANGED <<mounted, isSubmitting, form, isDragging>>

(***************************************************************************)
(* The picker widget (PhotoUpload.tsx).                                    *)
(***************************************************************************)
\* Variant: the size is checked before the type.
validateAndHandleFile_SizeFirst(f) ==
    IF f.size > maxSize
    THEN [toasts |-> <<ToastTooLarge>>, reported |-> <<>>]
    ELSE IF f.type \notin allowedTypes
    THEN [toasts |-> <<ToastUnsupportedType>>, reported |-> <<>>]
    ELSE [toasts |-> <<>>, reported |-> <<SyntheticEvent(f)>>]

\* Variant: a file of exactly maxSize bytes is refused.
validateAndHandleFile_AtLeast(f) ==
    IF f.type \notin allowedTypes
    THEN [toasts |-> <<ToastUnsupportedType>>, reported |-> <<>>]
    ELSE IF f.size >= maxSize
    THEN [toasts |-> <<ToastTooLarge>>, reported |-> <<>>]
    ELSE [toasts |-> <<>>, reported |-> <<SyntheticEvent(f)>>]

\* Variant: the early returns after the toasts are missing.
validateAndHandleFile_NoReturn(f) ==
    [toasts |-> (IF f.type \notin allowedTypes
                 THEN <<ToastUnsupportedType>> ELSE <<>>)
                \o (IF f.size > maxSize THEN <<ToastTooLarge>> ELSE <<>>),
     reported |-> <<SyntheticEvent(f)>>]

\* PhotoUpload.tsx:42-72   what validateAndHandleFile(f) emits: the toasts it
\* shows and the arguments it calls onFileChange with.
validateAndHandleFile(f) ==
    IF f.type \notin allowedTypes
    THEN [toasts |-> <<ToastUnsupportedType>>, reported |-> <<>>]
    ELSE IF f.size > maxSize
    THEN [toasts |-> <<ToastTooLarge>>, reported |-> <<>>]
    ELSE [toasts |-> <<>>, reported |-> <<SyntheticEvent(f)>>]

NothingOffered == [toasts |-> <<>>, reported |-> <<>>]

\* part_000:217-220   onFileChange={handleFileChange}: the owner's state after
\* the widget's calls of onFileChange.
FileAfterReports(reported) ==
    IF reported = <<>> THEN file ELSE handleFileChange(reported[1])

\* PhotoUpload.tsx:15-18
handleDragOver ==
    /\ isDragging' = TRUE
    /\ wf' = Retired(wf)
    /\ UNCHANGED <<mounted, isSubmitting, file, form>>
    /\ lastEvent' = [kind |-> "dragOver", reported |-> <<>>,
                     before |-> file, after |-> file']

\* PhotoUpload.tsx:20-23
handleDragLeave ==
    /\ isDragging' = FALSE
    /\ wf' = Retired(wf)
    /\ UNCHANGED <<mounted, isSubmitting, file, form>>
    /\ lastEvent' = [kind |-> "dragLeave", reported |-> <<>>,
                     before |-> file, after |-> file']

\* Variant of handleDrop that validates the last offered file.
handleDrop_LastFile(files) ==
    LET out == IF files # <<>> THEN validateAndHandleFile(files[Len(files)])
               ELSE NothingOffered
    IN  /\ isDragging' = FALSE
        /\ file' = FileAfterReports(out.reported)
        /\ wf' = Retired(wf)
        /\ lastEvent' = [kind |-> "drop", offered |-> files,
                         toasts |-> out.toasts, reported |-> out.reported,
                         before |-> file, after |-> file']
        /\ UNCHANGED <<mounted, isSubmitting, form>>

\* PhotoUpload.tsx:25-33
handleDrop(files) ==
    LET out == IF files # <<>> THEN validateAndHandleFile(files[1])
               ELSE NothingOffered
    IN  /\ isDragging' = FALSE
        /\ file' = FileAfterReports(out.reported)
        /\ wf' = Retired(wf)
        /\ lastEvent' = [kind |-> "drop", offered |-> files,
                         toasts |-> out.toasts, reported |-> out.reported,
                         before |-> file, after |-> file']
        /\ UNCHANGED <<mounted, isSubmitting, form>>

\* PhotoUpload.tsx:35-40
handleFileInputChange(files) ==
    LET out == IF files # <<>> THEN validateAndHandleFile(files[1])
               ELSE NothingOffered
    IN  /\ file' = FileAfterReports(out.reported)
        /\ wf' = Retired(wf)
        /\ lastEvent' = [kind |-> "pick", offered |-> files,
                         toasts |-> out.toasts, reported |-> out.reported,
                         before |-> file, after |-> file']
        /\ UNCHANGED <<mounted, isSubmitting, form, isDragging>>

(***************************************************************************)
(* The submission workflow (part_000:61-134).                              *)
(***************************************************************************)
\* JavaScript property read obj.name yields undefined when obj has no such
\* property, and undefined.split(...) throws a TypeError (part_000:79).
NameIsUndefined(obj) == "name" \notin DOMAIN obj

\* part_000:78   if (file)
Truthy(x) == x # Null /\ x # Undefined

\* part_000:79   file.name.split('.').pop(), for a name that is a string
FileExt(name) ==
    LET parts == SelectSeq(name, LAMBDA p : p # ".")
    IN  parts[Len(parts)]

\* part_000:80-81   `${Math.random()}.${fileExt}`
FilePath(r, ext) == <<r, ".", ext>>

\* part_000:91-93   getPublicUrl(filePath).data.publicUrl
PublicUrl(path) == [kind |-> "url", bucket |-> "card_photos", path |-> path]

\* part_000:106   values.description || null
OrNull(s) == IF s = "" THEN Null ELSE [kind |-> "string", value |-> s]

\* part_000:101-109   the row handed to insert; user is non-null here
Row(user, values, photoUrl) ==
    [reporter_id   |-> user.id,
     card_number   |-> values.cardNumber,
     location      |-> values.location,
     found_date    |-> values.foundDate,
     description   |-> OrNull(values.description),
     photo_url     |-> photoUrl,
     document_type |-> values.documentType]

\* Variant: the submit button is never disabled.
SubmitDisabled_Never == FALSE

\* part_000:225   disabled={isSubmitting}: a disabled submit button submits nothing
SubmitDisabled == isSubmitting

\* Variant: the missing-user check is left out.
UserMissing_Never(user) == FALSE

\* part_000:68   if (!user)
UserMissing(user) == user = Null

\* Variant: the upload error is not looked at.
UploadFailed_Ignored(uploadError) == FALSE

\* part_000:87   if (uploadError)
UploadFailed(uploadError) == uploadError # Null

\* part_000:112   if (error)
InsertFailed(error) == error # Null

\* Variant: navigate("/") is never called.
MayNavigate_Never == FALSE

\* Variant: navigate("/") is called without the mounted check.
MayNavigate_Unguarded == TRUE

\* part_000:119   if (mounted.current) before navigate("/")
MayNavigate == mounted

\* Variant: the catch block logs the error and shows no toast.
Caught_Silent(w, why) == [w EXCEPT !.outcome = why]

\* part_000:122-128   the catch block: one destructive toast
Caught(w, why) ==
    [w EXCEPT !.toasts = Append(@, ToastSubmitError), !.outcome = why]

\* Errors a storage or database call can resolve with.
BackendError == [kind |-> "error", message |-> "backend"]
CallErrors == {Null, BackendError}

\* A step of invocation i that suspends again at the next await.
Suspend(i, w) ==
    /\ wf' = [Retired(wf) EXCEPT ![i] = w]
    /\ lastEvent' = NoEvent
    /\ UNCHANGED <<mounted, isSubmitting, file, form, isDragging>>

\* Variant: the finally block does not clear the flag.
Finish_KeepsFlag(i, w) ==
    /\ wf' = [Retired(wf) EXCEPT ![i] = [w EXCEPT !.pc = "done"]]
    /\ lastEvent' = NoEvent
    /\ UNCHANGED <<mounted, isSubmitting, file, form, isDragging>>

\* Variant: the finally block also resets the form and drops the file.
Finish_ResetsForm(i, w) ==
    /\ isSubmitting' = IF mounted THEN FALSE ELSE isSubmitting
    /\ form' = defaultValues
    /\ file' = Null
    /\ wf' = [Retired(wf) EXCEPT ![i] = [w EXCEPT !.pc = "done"]]
    /\ lastEvent' = NoEvent
    /\ UNCHANGED <<mounted, isDragging>>

\* part_000:129-133   the finally block, then the invocation is over
Finish(i, w) ==
    /\ isSubmitting' = IF mounted THEN FALSE ELSE isSubmitting
    /\ wf' = [Retired(wf) EXCEPT ![i] = [w EXCEPT !.pc = "done"]]
    /\ lastEvent' = NoEvent
    /\ UNCHANGED <<mounted, file, form, isDragging>>

\* part_000:98-110   build the row and call insert; user.id of a null user throws
CallInsert(i, w) ==
    IF w.user = Null
    THEN Finish(i, Caught(w, "TypeError"))
    ELSE Suspend(i, [w EXCEPT !.pc = "insert",
                              !.calls = Append(@, "insert")])

\* The lowest free slot.
FreeSlot(w) == CHOOSE j \in Slots : w[j].pc = "idle" /\ \A k \in 1..(j-1) : w[k].pc # "idle"

\* Variant of onSubmit without the mounted check of its first line.
onSubmit_NoMountedCheck(values) ==
    /\ \E j \in Slots : Retired(wf)[j].pc = "idle"
    /\ isSubmitting' = TRUE
    /\ wf' = [Retired(wf) EXCEPT ![FreeSlot(Retired(wf))] =
                 [IdleWf EXCEPT !.pc = "auth", !.values = values,
                                !.file = file,
                                !.calls = <<"getUser">>]]
    /\ lastEvent' = [kind |-> "submit", result |-> "started"]
    /\ UNCHANGED <<mounted, file, form, isDragging>>

\* part_000:61-67   onSubmit(values) up to its first await
onSubmit(values) ==
    IF ~mounted
    THEN /\ wf' = Retired(wf)
         /\ lastEvent' = [kind |-> "submit", result |-> "ignored"]
         /\ UNCHANGED <<mounted, isSubmitting, file, form, isDragging>>
    ELSE /\ \E j \in Slots : Retired(wf)[j].pc = "idle"
         /\ isSubmitting' = TRUE
         /\ wf' = [Retired(wf) EXCEPT ![FreeSlot(Retired(wf))] =
                      [IdleWf EXCEPT !.pc = "auth", !.values = values,
                                     !.file = file,
                                     !.calls = <<"getUser">>]]
         /\ lastEvent' = [kind |-> "submit", result |-> "started"]
         /\ UNCHANGED <<mounted, file, form, isDragging>>

\* part_000:168, 222-228   a submit event: the button must be enabled, and
\* form.handleSubmit calls onSubmit only with values the schema accepts.  The
\* resolver runs in microtasks of the event's own task, and the button's
\* disabled attribute follows isSubmitting before the next event is handled,
\* so the event, the validation and the start of onSubmit are one step.
Submit ==
    /\ ~SubmitDisabled
    /\ IF formSchema(form)
       THEN onSubmit(form)
       ELSE /\ wf' = Retired(wf)
            /\ lastEvent' = [kind |-> "submit", result |-> "blocked"]
            /\ UNCHANGED <<mounted, isSubmitting, file, form, isDragging>>

\* part_000:67-96   getUser() resolves with user; r is what Math.random() returns
AuthResolve(i, user, r) ==
    /\ wf[i].pc = "auth"
    /\ LET w == [wf[i] EXCEPT !.user = user]
       IN  IF UserMissing(user)
           THEN Finish(i, [w EXCEPT !.toasts = Append(@, ToastUnauthenticated),
                                    !.outcome = "Unauthenticated"])
           ELSE IF Truthy(w.file)
           THEN IF NameIsUndefined(w.file)
                THEN Finish(i, Caught(w, "TypeError"))
                ELSE LET path == FilePath(r, FileExt(w.file.name))
                     IN  Suspend(i, [w EXCEPT !.pc = "upload",
                                              !.filePath = path,
                                              !.calls = Append(@, "upload")])
           ELSE CallInsert(i, w)

\* Variant: a failed upload is tried again.
UploadResolve_Retries(i, uploadError) ==
    /\ wf[i].pc = "upload"
    /\ IF UploadFailed(uploadError)
       THEN Suspend(i, [wf[i] EXCEPT !.calls = Append(@, "upload")])
       ELSE CallInsert(i, [wf[i] EXCEPT
                !.uploadError = uploadError,
                !.stored = Append(@, wf[i].filePath),
                !.calls = Append(@, "getPublicUrl"),
                !.photoUrl = PublicUrl(wf[i].filePath)])

\* part_000:83-96   upload() resolves with uploadError
UploadResolve(i, uploadError) ==
    /\ wf[i].pc = "upload"
    /\ IF UploadFailed(uploadError)
       THEN Finish(i, Caught([wf[i] EXCEPT !.uploadError = uploadError],
                             "UploadFailed"))
       ELSE CallInsert(i, [wf[i] EXCEPT
                !.uploadError = uploadError,
                !.stored = Append(@, wf[i].filePath),
                !.calls = Append(@, "getPublicUrl"),
                !.photoUrl = PublicUrl(wf[i].filePath)])

\* Variant: a failed insert removes the object that was uploaded.
InsertResolve_Compensates(i, error) ==
    /\ wf[i].pc = "insert"
    /\ IF InsertFailed(error)
       THEN Finish(i, Caught([wf[i] EXCEPT
                !.error = error,
                !.stored = <<>>,
                !.calls = IF wf[i].stored # <<>> THEN Append(@, "remove") ELSE @],
                "InsertFailed"))
       ELSE Finish(i, [wf[i] EXCEPT
                !.error = error,
                !.inserted = Append(@, Row(wf[i].user, wf[i].values, wf[i].photoUrl)),
                !.toasts = Append(@, ToastSuccess),
                !.calls = IF MayNavigate THEN Append(@, "navigate") ELSE @,
                !.outcome = "success"])

\* Variant: the result of the insert is dropped when the view is gone.
InsertResolve_QuietWhenUnmounted(i, error) ==
    /\ wf[i].pc = "insert"
    /\ IF InsertFailed(error)
       THEN Finish(i, Caught([wf[i] EXCEPT !.error = error], "InsertFailed"))
       ELSE Finish(i, [wf[i] EXCEPT
                !.error = error,
                !.inserted = Append(@, Row(wf[i].user, wf[i].values, wf[i].photoUrl)),
                !.toasts = IF mounted THEN Append(@, ToastSuccess) ELSE @,
                !.calls = IF MayNavigate THEN Append(@, "navigate") ELSE @,
                !.outcome = "success"])

\* part_000:98-121   insert() resolves with error
InsertResolve(i, error) ==
    /\ wf[i].pc = "insert"
    /\ IF InsertFailed(error)
       THEN Finish(i, Caught([wf[i] EXCEPT !.error = error], "InsertFailed"))
       ELSE Finish(i, [wf[i] EXCEPT
                !.error = error,
                !.inserted = Append(@, Row(wf[i].user, wf[i].values, wf[i].photoUrl)),
                !.toasts = Append(@, ToastSuccess),
                !.calls = IF MayNavigate THEN Append(@, "navigate") ELSE @,
                !.outcome = "success"])

\* part_000:54-59   the effect's cleanup, when the view is torn down
Teardown ==
    /\ mounted
    /\ mounted' = FALSE
    /\ form' = defaultValues
    /\ wf' = Retired(wf)
    /\ lastEvent' = NoEvent
    /\ UNCHANGED <<isSubmitting, file, isDragging>>

Next ==
    \/ \E name \in FieldNames : \E v \in FieldChoices[name] : SetField(name, v)
    \/ \E newFile \in DeclaredFileArgs : FileChangeCall(newFile)
    \/ handleDragOver
    \/ handleDragLeave
    \/ \E files \in FileLists : handleDrop(files)
    \/ \E files \in FileLists : handleFileInputChange(files)
    \/ Submit
    \/ \E i \in Slots : \E user \in Identities : \E r \in Rand : AuthResolve(i, user, r)
    \/ \E i \in Slots : \E e \in CallErrors : UploadResolve(i, e)
    \/ \E i \in Slots : \E e \in CallErrors : InsertResolve(i, e)
    \/ Teardown

Spec == Init /\ [][Next]_vars

(***************************************************************************)
(* Progress: the event loop resumes an invocation of onSubmit once the     *)
(* call it awaits has settled, and the calls are taken to settle.          *)
(***************************************************************************)
Settles ==
    \/ \E i \in Slots : \E user \in Identities : \E r \in Rand : AuthResolve(i, user, r)
    \/ \E i \in Slots : \E e \in CallErrors : UploadResolve(i, e)
    \/ \E i \in Slots : \E e \in CallErrors : InsertResolve(i, e)

(***************************************************************************)
(* The steps that matter to progress.  handleDragOver and handleDragLeave  *)
(* only write isDragging, which no line of onSubmit reads, so the          *)
(* progress specification leaves these two events out; a drop still        *)
(* clears the indicator.                                                   *)
(***************************************************************************)
LiveNext ==
    \/ \E name \in FieldNames : \E v \in FieldChoices[name] : SetField(name, v)
    \/ \E newFile \in DeclaredFileArgs : FileChangeCall(newFile)
    \/ \E files \in FileLists : handleDrop(files)
    \/ \E files \in FileLists : handleFileInputChange(files)
    \/ Submit
    \/ Settles
    \/ Teardown

LiveSpec == Init /\ [][LiveNext]_vars /\ WF_vars(Settles)

(***************************************************************************)
(* Helpers of the properties.                                              *)
(***************************************************************************)
Range(s) == {s[k] : k \in 1..Len(s)}

InFlight == {i \in Slots : wf[i].pc \in Running}

\* The candidate file of the last drop or pick event, when there was one.
WidgetEvent == lastEvent.kind \in {"drop", "pick"}
HasCandidate == WidgetEvent /\ lastEvent.offered # <<>>
Candidate == lastEvent.offered[1]

(***************************************************************************)
(* C1: within one form session at most one invocation of onSubmit is       *)
(* between its start and its finally block, whatever submit events arrive  *)
(* while an invocation is suspended at an await.                           *)
(***************************************************************************)
C1_AtMostOneInFlight == Cardinality(InFlight) <= 1

\* An invocation is suspended at the insert while the form is valid and the
\* view is mounted: a submit event here would start a second one.
C1_Witness ==
    \E i \in Slots : /\ wf[i].pc = "insert"
                     /\ mounted /\ formSchema(form) /\ isSubmitting

(***************************************************************************)
(* C2: when getUser resolves to no user, the invocation ends with the      *)
(* Unauthenticated toast and has made no upload, no public-URL lookup and  *)
(* no insert, with or without an attached file.                            *)
(***************************************************************************)
C2_UnauthenticatedNoWrites ==
    \A i \in Slots :
        wf[i].user = Null =>
            /\ wf[i].pc = "done"
            /\ wf[i].toasts = <<ToastUnauthenticated>>
            /\ wf[i].calls = <<"getUser">>
            /\ wf[i].stored = <<>>
            /\ wf[i].inserted = <<>>

C2_Witness ==
    \E i \in Slots : /\ wf[i].pc = "done" /\ wf[i].user = Null
                     /\ wf[i].file = Photo2MiB

(***************************************************************************)
(* C3: when a file is attached and the upload fails, the invocation aborts *)
(* without attempting an insert, so no row is created.                     *)
(***************************************************************************)
C3_UploadFailedNoInsert ==
    \A i \in Slots :
        wf[i].uploadError = BackendError =>
            /\ wf[i].pc = "done"
            /\ "insert" \notin Range(wf[i].calls)
            /\ wf[i].inserted = <<>>
            /\ wf[i].toasts = <<ToastSubmitError>>

C3_Witness ==
    \E i \in Slots : /\ wf[i].pc = "done"
                     /\ wf[i].uploadError = BackendError
                     /\ wf[i].file # Null

(***************************************************************************)
(* C4 (as stated): an invocation that was started with a file attached     *)
(* through the picker widget, got an identity, and met no upload or insert *)
(* error ends with the upload made before the insert and exactly one row   *)
(* inserted, whose photo_url is the public URL of the uploaded key.        *)
(***************************************************************************)
C4_PickerPhotoUrl ==
    \A i \in Slots :
        ( /\ wf[i].pc = "done"
          /\ wf[i].file \in {SyntheticEvent(f) : f \in CandidateFiles}
          /\ wf[i].user = TheUser
          /\ wf[i].uploadError # BackendError
          /\ wf[i].error # BackendError )
        => /\ wf[i].calls = <<"getUser", "upload", "getPublicUrl", "insert", "navigate">>
              \/ wf[i].calls = <<"getUser", "upload", "getPublicUrl", "insert">>
           /\ Len(wf[i].stored) = 1
           /\ Len(wf[i].inserted) = 1
           /\ wf[i].inserted[1].photo_url = PublicUrl(wf[i].stored[1])

(***************************************************************************)
(* C5: whenever an invocation of onSubmit is in flight, a state follows in  *)
(* which it has ended, whatever its outcome, and in which isSubmitting is  *)
(* cleared if the view is still mounted.                                   *)
(***************************************************************************)
C5_EventuallyCleared ==
    (InFlight # {}) ~> (InFlight = {} /\ (mounted => ~isSubmitting))

\* A failed attempt has ended in a mounted view with the flag cleared.
C5_Witness ==
    \E i \in Slots : /\ wf[i].pc = "done" /\ wf[i].error = BackendError
                     /\ mounted /\ ~isSubmitting

(***************************************************************************)
(* C6: no step of an invocation of onSubmit, from its start to the end of  *)
(* its finally block, changes the field values or the attached file: of    *)
(* the view's state it changes isSubmitting only.                          *)
(***************************************************************************)
WorkflowStep(i) ==
    \/ wf[i].pc \in Running /\ wf'[i].pc # wf[i].pc
    \/ wf[i].pc \notin Running /\ wf'[i].pc \in Running

C6_AttemptKeepsForm ==
    [][(\E i \in Slots : WorkflowStep(i))
          => (form' = form /\ file' = file /\ mounted' = mounted
              /\ isDragging' = isDragging)]_vars

\* A failed attempt has ended while the form is filled in and a file is
\* attached.
C6_Witness ==
    \E i \in Slots : /\ wf[i].pc = "done"
                     /\ wf[i].toasts = <<ToastSubmitError>>
                     /\ form = wf[i].values /\ form # defaultValues
                     /\ file = wf[i].file /\ file # Null

(***************************************************************************)
(* C7: once mounted is false, no step changes isSubmitting or the attached *)
(* file, and no invocation that ends calls navigate.                       *)
(***************************************************************************)
C7_NoMutationAfterTeardown ==
    [][~mounted =>
          /\ isSubmitting' = isSubmitting
          /\ file' = file
          /\ \A i \in Slots :
                (wf'[i].pc = "done" /\ wf[i].pc # "done")
                    => "navigate" \notin Range(wf'[i].calls)]_vars

\* The view was torn down while an invocation was in flight, and the
\* invocation then succeeded.
C7_Witness ==
    \E i \in Slots : /\ ~mounted /\ isSubmitting
                     /\ wf[i].pc = "done" /\ wf[i].inserted # <<>>

(***************************************************************************)
(* C8: a candidate file whose MIME type is not image/jpeg, image/png or    *)
(* image/jpg is rejected with the unsupported-type toast and no other,     *)
(* whatever its size, and is not reported to the owner.                    *)
(***************************************************************************)
C8_UnsupportedType ==
    (HasCandidate /\ Candidate.type \notin {"image/jpeg", "image/png", "image/jpg"})
        => /\ lastEvent.toasts = <<ToastUnsupportedType>>
           /\ lastEvent.reported = <<>>

\* A file of an unsupported type and of more than 5,242,880 bytes was offered.
C8_Witness ==
    /\ HasCandidate
    /\ Candidate.type = "application/pdf"
    /\ Candidate.size > 5242880

(***************************************************************************)
(* C9: a candidate file of an allowed MIME type is reported to the owner   *)
(* exactly once, with no toast, if and only if its size is at most         *)
(* 5,242,880 bytes; otherwise it is rejected with the too-large toast and  *)
(* not reported.  A file of exactly 5,242,880 bytes is accepted.           *)
(***************************************************************************)
C9_SizeLimit ==
    (HasCandidate /\ Candidate.type \in {"image/jpeg", "image/png", "image/jpg"})
        => IF Candidate.size <= 5242880
           THEN /\ lastEvent.toasts = <<>>
                /\ Len(lastEvent.reported) = 1
                /\ lastEvent.reported[1].target.files = <<Candidate>>
           ELSE /\ lastEvent.toasts = <<ToastTooLarge>>
                /\ lastEvent.reported = <<>>

\* A file of exactly 5,242,880 bytes was offered.
C9_Witness ==
    /\ HasCandidate
    /\ Candidate.type = "image/png"
    /\ Candidate.size = 5242880

(***************************************************************************)
(* C10: a drop or pick event whose candidate file the validator rejects    *)
(* leaves the attached file, or the absence of one, as it was.             *)
(***************************************************************************)
C10_RejectKeepsFile ==
    ( /\ HasCandidate
      /\ \/ Candidate.type \notin {"image/jpeg", "image/png", "image/jpg"}
         \/ Candidate.size > 5242880 )
    => lastEvent.after = lastEvent.before

\* A file was rejected while another one was attached.
C10_Witness ==
    /\ HasCandidate
    /\ lastEvent.toasts # <<>>
    /\ lastEvent.before # Null
    /\ mounted

(***************************************************************************)
(* C11 (as stated): the view holds at most one attached file, and after a  *)
(* drop or pick event that accepted a candidate file the attached file is  *)
(* that candidate file, replacing whatever was attached before.            *)
(***************************************************************************)
C11_HoldsLatestAccepted ==
    /\ file = Null \/ file.kind = "file"
    /\ ( /\ HasCandidate
         /\ mounted
         /\ Candidate.type \in {"image/jpeg", "image/png", "image/jpg"}
         /\ Candidate.size <= 5242880 )
       => file = Candidate

(***************************************************************************)
(* The schema as a function of the submitted values: the form starts with  *)
(* any values of a bounded set, empty document type included, and is       *)
(* submitted as it is, with no file attached.                              *)
(***************************************************************************)
SchemaForms ==
    [documentType : {"", "id", "passport"},
     cardNumber   : {<<>>, <<"7">>, <<"1", "2", "3">>, <<"1", "2", "a", "3">>, <<"x">>},
     location     : {"", "Dakar"},
     foundDate    : {"", "2024-05-01"},
     description  : {"", "trouvé au marché"}]

SchemaInit ==
    /\ mounted = TRUE
    /\ isSubmitting = FALSE
    /\ file = Null
    /\ form \in SchemaForms
    /\ isDragging = FALSE
    /\ wf = [j \in Slots |-> IdleWf]
    /\ lastEvent = NoEvent

SchemaNext ==
    \/ Submit
    \/ \E i \in Slots : \E user \in Identities : \E r \in Rand : AuthResolve(i, user, r)
    \/ \E i \in Slots : \E e \in CallErrors : InsertResolve(i, e)

SchemaSpec == SchemaInit /\ [][SchemaNext]_vars

(***************************************************************************)
(* C12: a submit event starts no invocation of onSubmit, and so no         *)
(* identity, storage or database call, when documentType, cardNumber,      *)
(* location or foundDate is empty or cardNumber holds a character that is  *)
(* not a digit; with a non-empty digits-only cardNumber and the other      *)
(* required fields non-empty it starts one, whatever the description.      *)
(***************************************************************************)
C12_Passes(v) ==
    /\ v.documentType # ""
    /\ v.cardNumber # <<>>
    /\ \A k \in 1..Len(v.cardNumber) :
          v.cardNumber[k] \in {"0", "1", "2", "3", "4", "5", "6", "7", "8", "9"}
    /\ v.location # ""
    /\ v.foundDate # ""

C12_SchemaGate ==
    lastEvent.kind = "submit" =>
        IF C12_Passes(form)
        THEN /\ lastEvent.result = "started"
             /\ \E i \in Slots : /\ wf[i].pc = "auth"
                                 /\ wf[i].values = form
                                 /\ wf[i].calls = <<"getUser">>
        ELSE /\ lastEvent.result = "blocked"
             /\ \A i \in Slots : wf[i] = IdleWf
             /\ ~isSubmitting

\* A form whose only fault is a letter in cardNumber was submitted.
C12_Witness ==
    /\ lastEvent.kind = "submit"
    /\ form.cardNumber = <<"1", "2", "a", "3">>
    /\ form.documentType # "" /\ form.location # "" /\ form.foundDate # ""

(***************************************************************************)
(* C13: an invocation started with no file attached, that got an identity  *)
(* and whose insert succeeded, made no storage call, inserted one row      *)
(* whose photo_url is null, showed the "Signalement envoyé" toast and, the *)
(* view being mounted, navigated to the home route.                        *)
(***************************************************************************)
C13_NoFileSuccess ==
    \A i \in Slots :
        ( /\ wf[i].pc = "done"
          /\ wf[i].file = Null
          /\ wf[i].user = TheUser
          /\ wf[i].error = Null )
        => /\ "upload" \notin Range(wf[i].calls)
           /\ "getPublicUrl" \notin Range(wf[i].calls)
           /\ wf[i].stored = <<>>
           /\ Len(wf[i].inserted) = 1
           /\ wf[i].inserted[1].photo_url = Null
           /\ wf[i].inserted[1].card_number = wf[i].values.cardNumber
           /\ wf[i].toasts = <<ToastSuccess>>
           /\ mounted => wf[i].calls = <<"getUser", "insert", "navigate">>

C13_Witness ==
    \E i \in Slots : /\ wf[i].pc = "done"
                     /\ wf[i].file = Null
                     /\ wf[i].error = Null
                     /\ mounted
                     /\ wf[i].calls = <<"getUser", "insert", "navigate">>

(***************************************************************************)
(* C14: there is no automatic retry.  An invocation of onSubmit calls      *)
(* getUser, upload and insert at most once each; an invocation that met a  *)
(* failure is over; and a slot that is not running gets calls only through *)
(* a submit event that starts a new invocation.                            *)
(***************************************************************************)
CountOf(c, s) == Cardinality({k \in 1..Len(s) : s[k] = c})

Failed(i) ==
    \/ wf[i].user = Null
    \/ wf[i].uploadError = BackendError
    \/ wf[i].error = BackendError

C14_NoRetry ==
    /\ [](\A i \in Slots :
            /\ CountOf("getUser", wf[i].calls) <= 1
            /\ CountOf("upload", wf[i].calls) <= 1
            /\ CountOf("insert", wf[i].calls) <= 1
            /\ Failed(i) => wf[i].pc = "done")
    /\ [][\A i \in Slots :
            (wf[i].pc \notin Running /\ wf'[i].calls # <<>>
                /\ wf'[i].calls # wf[i].calls)
            => lastEvent' = [kind |-> "submit", result |-> "started"]]_vars

\* An upload has failed and its invocation is over with one upload call.
C14_Witness ==
    \E i \in Slots : /\ wf[i].uploadError = BackendError
                     /\ CountOf("upload", wf[i].calls) = 1
                     /\ wf[i].pc = "done"

(***************************************************************************)
(* C15: an invocation that failed, with no identity, a failed upload or a  *)
(* failed insert, has shown exactly one toast, a destructive one, and no   *)
(* success toast.                                                          *)
(***************************************************************************)
C15_OneToastPerFailure ==
    \A i \in Slots :
        Failed(i) =>
            /\ Len(wf[i].toasts) = 1
            /\ wf[i].toasts[1].variant = "destructive"
            /\ ToastSuccess \notin Range(wf[i].toasts)
            /\ wf[i].user = Null => wf[i].toasts = <<ToastUnauthenticated>>

\* An insert has failed after a successful upload.
C15_Witness ==
    \E i \in Slots : /\ wf[i].error = BackendError
                     /\ wf[i].uploadError = Null
                     /\ Len(wf[i].toasts) = 1

(***************************************************************************)
(* C16: when the upload succeeded and the insert then fails, the error     *)
(* toast is shown, no call follows the insert (no removal of the uploaded  *)
(* object), and the object stays in storage with no row inserted.          *)
(***************************************************************************)
C16_OrphanObject ==
    \A i \in Slots :
        (wf[i].uploadError = Null /\ wf[i].error = BackendError)
        => /\ wf[i].pc = "done"
           /\ wf[i].toasts = <<ToastSubmitError>>
           /\ wf[i].calls = <<"getUser", "upload", "getPublicUrl", "insert">>
           /\ wf[i].stored = <<wf[i].filePath>>
           /\ wf[i].inserted = <<>>

C16_Witness ==
    \E i \in Slots : /\ wf[i].pc = "done"
                     /\ wf[i].error = BackendError
                     /\ wf[i].stored # <<>>

(***************************************************************************)
(* C17: drag-over sets the dragging indicator and drag-leave clears it,    *)
(* and neither changes the attached file nor calls the owner callback; a   *)
(* drop clears the indicator whether the dropped file is accepted,         *)
(* rejected or absent, and only the first offered file is considered: an   *)
(* empty drop reports and shows nothing, and otherwise the owner callback  *)
(* is called exactly when the first file is acceptable, with that file.    *)
(***************************************************************************)
C17_DragAndDrop ==
    /\ lastEvent.kind = "dragOver"
         => (isDragging /\ lastEvent.after = lastEvent.before
                        /\ lastEvent.reported = <<>>)
    /\ lastEvent.kind = "dragLeave"
         => (~isDragging /\ lastEvent.after = lastEvent.before
                         /\ lastEvent.reported = <<>>)
    /\ lastEvent.kind = "drop"
         => /\ ~isDragging
            /\ lastEvent.offered = <<>>
                 => /\ lastEvent.toasts = <<>>
                    /\ lastEvent.reported = <<>>
                    /\ lastEvent.after = lastEvent.before
            /\ lastEvent.offered # <<>>
                 => LET first == lastEvent.offered[1]
                        ok == /\ first.type \in {"image/jpeg", "image/png", "image/jpg"}
                              /\ first.size <= 5 * 1024 * 1024
                    IN  /\ ok => lastEvent.reported = <<SyntheticEvent(first)>>
                        /\ ~ok => /\ lastEvent.reported = <<>>
                                  /\ Len(lastEvent.toasts) = 1
                                  /\ lastEvent.after = lastEvent.before

\* Two files were dropped, the first over the size limit and the second
\* acceptable: nothing was reported and the attached file stayed.
C17_Witness ==
    /\ lastEvent.kind = "drop"
    /\ lastEvent.offered = <<JpgOverMax, Photo2MiB>>
    /\ lastEvent.reported = <<>>
    /\ ~isDragging

(***************************************************************************)
(* C18: once the cleanup has run, mounted stays false, and a submit event  *)
(* that comes later starts nothing: onSubmit returns at its first line, so *)
(* no slot begins an invocation or gains a call (getUser, upload, insert), *)
(* and isSubmitting keeps its value.                                       *)
(***************************************************************************)
C18_DeadAfterTeardown ==
    [][~mounted =>
          /\ ~mounted'
          /\ lastEvent'.kind = "submit"
               => /\ lastEvent'.result # "started"
                  /\ isSubmitting' = isSubmitting
                  /\ \A i \in Slots : wf'[i] \in {wf[i], IdleWf}
                  /\ \A i \in Slots : wf'[i].calls \in {wf[i].calls, <<>>}]_vars

\* onSubmit was invoked with valid values after the view was torn down.
C18_Witness ==
    /\ ~mounted
    /\ ~isSubmitting
    /\ lastEvent = [kind |-> "submit", result |-> "ignored"]
    /\ \A i \in Slots : wf[i].calls = <<>>

(***************************************************************************)
(* C19: when the view is torn down while an invocation is in flight and    *)
(* the insert then resolves without error, the row is inserted and the     *)
(* "Signalement envoyé" toast is shown, and insert is the invocation's     *)
(* last call: navigate is not called.                                      *)
(***************************************************************************)
C19_SuccessAfterTeardown ==
    \A i \in Slots :
        ( /\ ~mounted
          /\ wf[i].pc = "done"
          /\ "insert" \in Range(wf[i].calls)
          /\ wf[i].error = Null )
        => /\ wf[i].inserted =
                 <<Row(wf[i].user, wf[i].values, wf[i].photoUrl)>>
           /\ wf[i].toasts = <<ToastSuccess>>
           /\ "navigate" \notin Range(wf[i].calls)
           /\ wf[i].calls[Len(wf[i].calls)] = "insert"

\* The insert of an invocation resolved without error after the teardown.
C19_Witness ==
    \E i \in Slots : /\ ~mounted
                     /\ wf[i].pc = "done"
                     /\ wf[i].error = Null
                     /\ wf[i].calls = <<"getUser", "insert">>
                     /\ wf[i].toasts = <<ToastSuccess>>
                     /\ Len(wf[i].inserted) = 1

====
